---- MODULE Spec2Model ----
(***************************************************************************)
(* Model of the account-creation orchestrators of the repository:          *)
(*   - the launch-next orchestrator (runHighThroughput / launchNext),      *)
(*     src/unnamed/part_000                                                *)
(*   - the race-based orchestrator (queueNext + Promise.race loop),        *)
(*     src/unnamed/part_001                                                *)
(*   - the batch orchestrator (for loop + Promise.all), src/app.js         *)
(* One run executes exactly one of the three scripts (variable variant).   *)
(* JavaScript runs one callback at a time: every action below is one       *)
(* synchronous segment (a promise reaction or an await continuation).      *)
(***************************************************************************)
EXTENDS Integers, FiniteSets, Sequences, TLC

VARIABLES
    variant,                  \* which script runs: "launchNext", "race", "batch"
    script,                   \* "free": createAccount may return anything;
                              \* "scenario": outcomes fixed by attempt index
    loopCount,                \* requested number of accounts (success target)
    MAX_CONCURRENT_REQUESTS,  \* concurrency limit
    successCount,             \* let successCount
    attemptNumber,            \* let attemptNumber (loop variable i in app.js)
    inFlight,                 \* inFlight / activePromises: indices of pending attempt promises
    settled,                  \* attempts whose .then ran and whose .finally is still queued
    resolved,                 \* launch-next: resolve() of runHighThroughput was called
    pc,                       \* position of the main async function
    awaited,                  \* the promises the main function is awaiting (race / all)
    trueCount,                \* number of createAccount calls that returned true
    saved,                    \* number of records appended to accounts.txt
    shownSuccess,             \* success count printed by the summary
    shortfall,                \* shortfall printed by the summary (0: none printed)
    \* one execution of createAccount (the async iteration body in app.js)
    ePc,                      \* the await it is suspended at: "idle", "register", "probe",
                              \* "delay", "finalize", "save", "returned"
    eAttempts,                \* let attempts
    eCode,                    \* verificationCode is a non-empty string
    eProbes,                  \* calls of functionGetLink made
    eDelays,                  \* setTimeout delays awaited
    eProbeErrors,             \* some functionGetLink request threw
    eRegister,                \* reply of the register request ("none": not received)
    eRegisterCalls,           \* calls of regist_sendRequest made
    eFinalize,                \* reply of the finalize request ("none": not received)
    eFinalizeCalls,           \* calls of verify_sendRequest made
    eAppends,                 \* records this attempt appended to accounts.txt
    eThrown,                  \* phase in which an exception was thrown ("none": no exception)
    eFailure,                 \* failure the attempt logged ("none": no failure)
    eResult,                  \* value returned: "none" (not yet), "true", "false", "undefined"
    \* the domain pool
    availableDomains,         \* availableDomains.length
    noDomainsReports,         \* times 'No domains available for signup.' was logged
    selectedProxy,            \* proxies[country], passed to every attempt
    password,                 \* config.password, passed to every attempt
    \* one call of getCommissionRateForProfit (sales dashboard)
    cPc,                      \* "idle": no call, "input": arguments chosen, "computed": returned
    cUserExists,              \* the user looked up is not null
    cMode,                    \* user.commissionMode ("undefined": the field is missing)
    cProfitPercent,           \* user.profitPercent (Absent: the field is missing)
    cBrackets,                \* commissionBrackets, amounts in centavos
    cProfit,                  \* profit, in centavos
    cRate,                    \* the rate returned (Absent: not yet)
    \* the prompts of the launch-next script and the settings they change
    qPc,                      \* "idle": no prompt, "concurrency", "batch": question to
                              \* ask next, "answered": promptUser resolved, "parsed"
    configMaxConcurrent,      \* config.maxConcurrent (Absent: the field is missing)
    configBatchSize,          \* config.batchSize (Absent: the field is missing)
    BATCH_SIZE,               \* let BATCH_SIZE
    shownConcurrency,         \* default printed in 'Max concurrent attempts?' (Absent: not yet)
    shownBatchSize,           \* default printed in 'Batch size?' (Absent: not yet)
    concurrencyInput,         \* the answer to 'Max concurrent attempts?', a sequence of characters
    batchInput,               \* the answer to 'Batch size?', a sequence of characters
    \* the verification submitter: the college lookup
    collegesMap,              \* the names of the colleges loaded, in iteration order
    fPc,                      \* "idle": no lookup, "input": arguments chosen, "returned"
    fSchool,                  \* schoolName
    fResult,                  \* position of the college returned (NoCollege: null)
    \* the verification submitter: main and processStudent
    mPc,                      \* main: "idle" (not run), "ask", "student" (awaiting
                              \* processStudent), "between" (the 2 s delay), "done"
    verificationId,           \* the answer to the prompt, trimmed ("": empty)
    students,                 \* the school names of the students loaded, in file order
    mIndex,                   \* position of the student being processed (0: none yet)
    mResults,                 \* what processStudent returned, student by student
    rlClosed,                 \* rl.close() was called
    proc                      \* the running call of processStudent: the await it is
                              \* suspended at, what it observed and the calls it made

orchVars == <<variant, script, loopCount, MAX_CONCURRENT_REQUESTS, successCount,
              attemptNumber, inFlight, settled, resolved, pc, awaited, trueCount,
              saved, shownSuccess, shortfall>>

execVars == <<ePc, eAttempts, eCode, eProbes, eDelays, eProbeErrors, eRegister,
              eRegisterCalls, eFinalize, eFinalizeCalls, eAppends, eThrown, eFailure,
              eResult>>

loadVars == <<availableDomains, noDomainsReports, selectedProxy, password>>

commVars == <<cPc, cUserExists, cMode, cProfitPercent, cBrackets, cProfit, cRate>>

promptVars == <<qPc, configMaxConcurrent, configBatchSize, BATCH_SIZE, shownConcurrency,
                shownBatchSize, concurrencyInput, batchInput>>

findVars == <<collegesMap, fPc, fSchool, fResult>>

subVars == <<mPc, verificationId, students, mIndex, mResults, rlClosed, proc>>

\* state outside the commission calculation
otherVars == <<promptVars, findVars, subVars>>

\* state of the programs other than the account-creation runs
sideVars == <<commVars, otherVars>>

vars == <<orchVars, execVars, loadVars, sideVars>>

\* ---------------------------------------------------------------- bounds
MaxLoopCount == 3        \* largest success target explored by Spec
MaxConcurrency == 3      \* largest concurrency limit explored
MaxRaceAttempts == 8     \* exploration horizon of the race-based run, which has no attempt budget
MaxFairLoopCount == 2    \* largest success target explored under fairness
MaxFairConcurrency == 2  \* largest concurrency limit explored under fairness
MaxWatchedLoopCount == 1    \* largest success target explored with a watched attempt
MaxWatchedConcurrency == 2  \* largest concurrency limit explored with a watched attempt
MaxWatchedAttempts == 3     \* exploration horizon of the race-based run with a watched attempt
MaxDomains == 1             \* largest domain pool loaded
MaxDomainsLoopCount == 1    \* largest success target explored after the pool is loaded
MaxDomainsConcurrency == 2  \* largest concurrency limit explored after the pool is loaded
MaxLaunchLoopCount == 2     \* largest success target explored by SpecLaunchNext
MaxLaunchConcurrency == 3   \* largest concurrency limit explored by SpecLaunchNext
MaxFixedLoopCount == 2      \* largest success target explored with fixed outcomes
MaxFixedConcurrency == 2    \* largest concurrency limit explored with fixed outcomes
MaxBatchLoopCount == 4      \* largest loopCount explored by SpecBatch
MaxBatchConcurrency == 2    \* largest concurrency limit configured in SpecBatch

Max(a, b) == IF a >= b THEN a ELSE b

\* ------------------------------------------------------ attempt outcomes
\* Scripted executor of the scenario: attempts 1, 2 fail, 3, 4, 5 succeed,
\* later attempts are not scripted.
ScenarioOutcomes(i) ==
    IF i \in {1, 2} THEN {FALSE}
    ELSE IF i \in {3, 4, 5} THEN {TRUE}
    ELSE BOOLEAN

\* Executors whose outcome is fixed for every attempt index.
FixedScripts == {"allFail", "evenSucceed", "oddSucceed"}

FixedOutcome(sc, i) ==
    CASE sc = "evenSucceed" -> i % 2 = 0
      [] sc = "oddSucceed" -> i % 2 = 1
      [] OTHER -> FALSE

\* The values createAccount can return for attempt i (it never rejects).
createAccount(i) ==
    IF script = "scenario" THEN ScenarioOutcomes(i)
    ELSE IF script \in FixedScripts THEN {FixedOutcome(script, i)}
    ELSE BOOLEAN

\* saveToFile swallows a write error: the record is appended or it is not.
saveToFile(n) == {n, n + 1}

\* ------------------------------------------- launch-next (part_000)
\* faulty variant of the budget: the 3 * loopCount term forgotten
maxAttemptsSum == loopCount + MAX_CONCURRENT_REQUESTS

\* faulty variant of the budget: the concurrency limit is left out
maxAttemptsTriple == loopCount * 3

\* const maxAttempts = Math.max(loopCount * 3, loopCount + MAX_CONCURRENT_REQUESTS)
maxAttempts == Max(loopCount * 3, loopCount + MAX_CONCURRENT_REQUESTS)

\* faulty variants of the exit test: without the budget disjunct; without the drain test
ShouldResolveTargetOnly(inFl) == successCount >= loopCount

ShouldResolveNoDrain(inFl) ==
    successCount >= loopCount \/ attemptNumber >= maxAttempts

\* the exit test at the top of launchNext
ShouldResolve(inFl) ==
    successCount >= loopCount \/ (attemptNumber >= maxAttempts /\ inFl = {})

\* faulty variants of the while condition: <= for <; without the budget test
LaunchGuardOffByOne(size, n) ==
    size <= MAX_CONCURRENT_REQUESTS /\ n < maxAttempts /\ successCount < loopCount

\* faulty variant of the launch guard: launches only once nothing is in flight
LaunchGuardWhenEmpty(size, n) ==
    size = 0 /\ n < maxAttempts /\ successCount < loopCount

LaunchGuardNoBudget(size, n) ==
    size < MAX_CONCURRENT_REQUESTS /\ successCount < loopCount

\* the while condition of launchNext
LaunchGuard(size, n) ==
    size < MAX_CONCURRENT_REQUESTS /\ n < maxAttempts /\ successCount < loopCount

\* number of iterations of launchNext's while loop
RECURSIVE LaunchCount(_, _)
LaunchCount(size, n) ==
    IF LaunchGuard(size, n) THEN 1 + LaunchCount(size + 1, n + 1) ELSE 0

\* faulty variant of launchNext: the launched attempts take no new index
launchNextSameIndex(inFl) ==
    IF ShouldResolve(inFl)
    THEN /\ resolved' = TRUE
         /\ attemptNumber' = attemptNumber
         /\ inFlight' = inFl
    ELSE LET k == LaunchCount(Cardinality(inFl), attemptNumber) IN
         /\ resolved' = resolved
         /\ attemptNumber' = attemptNumber
         /\ inFlight' = inFl \cup (attemptNumber .. (attemptNumber + k - 1))

\* launchNext(), called with the in-flight set inFl
launchNext(inFl) ==
    IF ShouldResolve(inFl)
    THEN /\ resolved' = TRUE
         /\ attemptNumber' = attemptNumber
         /\ inFlight' = inFl
    ELSE LET k == LaunchCount(Cardinality(inFl), attemptNumber) IN
         /\ resolved' = resolved
         /\ attemptNumber' = attemptNumber + k
         /\ inFlight' = inFl \cup ((attemptNumber + 1) .. (attemptNumber + k))

\* faulty variant of the counter update: counts failures too
CountSuccessAlways(count, success) == count + 1

\* if (success) successCount++
CountSuccess(count, success) == IF success THEN count + 1 ELSE count

\* await runHighThroughput(): new Promise(...) runs launchNext() once
StartLaunchNext ==
    /\ variant = "launchNext"
    /\ pc = "start"
    /\ pc' = "awaitRun"
    /\ launchNext(inFlight)
    /\ UNCHANGED <<variant, script, loopCount, MAX_CONCURRENT_REQUESTS, successCount,
                   settled, awaited, trueCount, saved, shownSuccess, shortfall>>
    /\ UNCHANGED <<execVars, loadVars, sideVars>>

\* createAccount(i) returns and the .then((success) => { if (success) successCount++ })
\* reaction runs (the same code in part_000 and part_001)
Then(i) ==
    /\ i \in inFlight \ settled
    /\ \E success \in createAccount(i) :
          /\ successCount' = CountSuccess(successCount, success)
          /\ trueCount' = IF success THEN trueCount + 1 ELSE trueCount
          /\ saved' \in (IF success THEN saveToFile(saved) ELSE {saved})
    /\ settled' = settled \cup {i}
    /\ UNCHANGED <<variant, script, loopCount, MAX_CONCURRENT_REQUESTS, attemptNumber,
                   inFlight, resolved, pc, awaited, shownSuccess, shortfall>>
    /\ UNCHANGED <<execVars, loadVars, sideVars>>

ThenLaunchNext(i) == variant = "launchNext" /\ Then(i)

\* .finally(() => { inFlight.delete(attemptPromise); launchNext(); })
FinallyLaunchNext(i) ==
    /\ variant = "launchNext"
    /\ i \in settled
    /\ settled' = settled \ {i}
    /\ launchNext(inFlight \ {i})
    /\ UNCHANGED <<variant, script, loopCount, MAX_CONCURRENT_REQUESTS, successCount,
                   pc, awaited, trueCount, saved, shownSuccess, shortfall>>
    /\ UNCHANGED <<execVars, loadVars, sideVars>>

\* the summary printed after await runHighThroughput()
ShortfallOf(target, count) == IF count < target THEN target - count ELSE 0

\* faulty variant of the summary: printed again whenever resolve() has been called
SummaryOnEveryResolve ==
    /\ variant = "launchNext"
    /\ pc \in {"awaitRun", "done"}
    /\ resolved
    /\ pc' = "done"
    /\ shownSuccess' = successCount
    /\ shortfall' = ShortfallOf(loopCount, successCount)
    /\ UNCHANGED <<variant, script, loopCount, MAX_CONCURRENT_REQUESTS, successCount,
                   attemptNumber, inFlight, settled, resolved, awaited, trueCount, saved>>
    /\ UNCHANGED <<execVars, loadVars, sideVars>>

SummaryLaunchNext ==
    /\ variant = "launchNext"
    /\ pc = "awaitRun"
    /\ resolved
    /\ pc' = "done"
    /\ shownSuccess' = successCount
    /\ shortfall' = ShortfallOf(loopCount, successCount)
    /\ UNCHANGED <<variant, script, loopCount, MAX_CONCURRENT_REQUESTS, successCount,
                   attemptNumber, inFlight, settled, resolved, awaited, trueCount, saved>>
    /\ UNCHANGED <<execVars, loadVars, sideVars>>

NextLaunchNext ==
    \/ StartLaunchNext
    \/ \E i \in inFlight : ThenLaunchNext(i)
    \/ \E i \in inFlight : FinallyLaunchNext(i)
    \/ SummaryLaunchNext

\* ------------------------------------------- race-based (part_001)
\* faulty variant of queueNext's while condition: without the target test
QueueGuardNoTarget(size) == size < MAX_CONCURRENT_REQUESTS

\* the while condition of queueNext (this variant has no attempt budget)
QueueGuard(size) ==
    size < MAX_CONCURRENT_REQUESTS /\ successCount < loopCount

\* number of iterations of queueNext's while loop
RECURSIVE QueueCount(_)
QueueCount(size) == IF QueueGuard(size) THEN 1 + QueueCount(size + 1) ELSE 0

\* queueNext() on the run state s = [inFlight, attemptNumber]
queueNext(s) ==
    LET k == QueueCount(Cardinality(s.inFlight)) IN
    [inFlight |-> s.inFlight \cup ((s.attemptNumber + 1) .. (s.attemptNumber + k)),
     attemptNumber |-> s.attemptNumber + k]

\* One pass from the top of while (successCount < loopCount) to the next await:
\* the result is the run state and the await reached ("race" or "all").
LoopTop(s) ==
    IF successCount < loopCount
    THEN LET t == IF s.inFlight = {} THEN queueNext(s) ELSE s IN
         IF t.inFlight = {}
         THEN [run |-> t, at |-> "all"]       \* break
         ELSE [run |-> t, at |-> "race"]      \* await Promise.race(activePromises)
    ELSE [run |-> s, at |-> "all"]            \* await Promise.all(activePromises)

\* the main function moves to its next await with run state r.run
EnterAwait(r) ==
    /\ r.run.attemptNumber <= MaxRaceAttempts
    /\ inFlight' = r.run.inFlight
    /\ attemptNumber' = r.run.attemptNumber
    /\ awaited' = r.run.inFlight
    /\ pc' = r.at

\* queueNext(); then the first pass of the while loop
StartRace ==
    /\ variant = "race"
    /\ pc = "start"
    /\ EnterAwait(LoopTop(queueNext([inFlight |-> inFlight, attemptNumber |-> attemptNumber])))
    /\ UNCHANGED <<variant, script, loopCount, MAX_CONCURRENT_REQUESTS, successCount,
                   settled, resolved, trueCount, saved, shownSuccess, shortfall>>
    /\ UNCHANGED <<execVars, loadVars, sideVars>>

ThenRace(i) == variant = "race" /\ Then(i)

\* .finally(() => { activePromises.delete(promise); })
FinallyRace(i) ==
    /\ variant = "race"
    /\ i \in settled
    /\ settled' = settled \ {i}
    /\ inFlight' = inFlight \ {i}
    /\ UNCHANGED <<variant, script, loopCount, MAX_CONCURRENT_REQUESTS, successCount,
                   attemptNumber, resolved, pc, awaited, trueCount, saved, shownSuccess,
                   shortfall>>
    /\ UNCHANGED <<execVars, loadVars, sideVars>>

\* Promise.race(ps) settles once one promise of ps has settled; a promise of
\* the set has settled when its .finally has run, which removed it from inFlight
RaceSettled(ps) == ps \ inFlight # {}

\* faulty variant of Promise.all: settles with the first promise, like Promise.race
AllSettledAny(ps) == ps \ inFlight # {}

\* Promise.all(ps) settles once every promise of ps has settled
AllSettled(ps) == ps \cap inFlight = {}

\* continuation of await Promise.race(activePromises): queueNext(), loop again
RaceResume ==
    /\ variant = "race"
    /\ pc = "race"
    /\ RaceSettled(awaited)
    /\ EnterAwait(LoopTop(queueNext([inFlight |-> inFlight, attemptNumber |-> attemptNumber])))
    /\ UNCHANGED <<variant, script, loopCount, MAX_CONCURRENT_REQUESTS, successCount,
                   settled, resolved, trueCount, saved, shownSuccess, shortfall>>
    /\ UNCHANGED <<execVars, loadVars, sideVars>>

\* continuation of await Promise.all(...): the summary is printed
\* (race-based and batch; neither prints a shortfall count)
SummaryAll ==
    /\ pc = "all"
    /\ AllSettled(awaited)
    /\ pc' = "done"
    /\ shownSuccess' = successCount
    /\ UNCHANGED <<variant, script, loopCount, MAX_CONCURRENT_REQUESTS, successCount,
                   attemptNumber, inFlight, settled, resolved, awaited, trueCount, saved,
                   shortfall>>
    /\ UNCHANGED <<execVars, loadVars, sideVars>>

SummaryRace == variant = "race" /\ SummaryAll

NextRace ==
    \/ StartRace
    \/ \E i \in inFlight : ThenRace(i)
    \/ \E i \in inFlight : FinallyRace(i)
    \/ RaceResume
    \/ SummaryRace

\* ------------------------------------------------- batch (app.js)
\* faulty variant of StartBatch: the loop stops launching at the concurrency limit
StartBatchCapped ==
    /\ variant = "batch"
    /\ pc = "start"
    /\ attemptNumber' = IF loopCount <= MAX_CONCURRENT_REQUESTS
                            THEN loopCount ELSE MAX_CONCURRENT_REQUESTS
    /\ inFlight' = 1 .. attemptNumber'
    /\ awaited' = 1 .. attemptNumber'
    /\ pc' = "all"
    /\ UNCHANGED <<variant, script, loopCount, MAX_CONCURRENT_REQUESTS, successCount,
                   settled, resolved, trueCount, saved, shownSuccess, shortfall>>
    /\ UNCHANGED <<execVars, loadVars, sideVars>>

\* for (let i = 1; i <= loopCount; i++) promises.push((async () => {...})());
\* then await Promise.all(promises)
StartBatch ==
    /\ variant = "batch"
    /\ pc = "start"
    /\ attemptNumber' = loopCount
    /\ inFlight' = 1 .. loopCount
    /\ awaited' = 1 .. loopCount
    /\ pc' = "all"
    /\ UNCHANGED <<variant, script, loopCount, MAX_CONCURRENT_REQUESTS, successCount,
                   settled, resolved, trueCount, saved, shownSuccess, shortfall>>
    /\ UNCHANGED <<execVars, loadVars, sideVars>>

\* one async iteration body returns: the account was created (and saved) or not
SettleBatch(i) ==
    /\ variant = "batch"
    /\ i \in inFlight
    /\ inFlight' = inFlight \ {i}
    /\ \E success \in createAccount(i) :
          /\ trueCount' = IF success THEN trueCount + 1 ELSE trueCount
          /\ saved' \in (IF success THEN saveToFile(saved) ELSE {saved})
    /\ UNCHANGED <<variant, script, loopCount, MAX_CONCURRENT_REQUESTS, successCount,
                   attemptNumber, settled, resolved, pc, awaited, shownSuccess, shortfall>>
    /\ UNCHANGED <<execVars, loadVars, sideVars>>

SummaryBatch == variant = "batch" /\ SummaryAll

NextBatch ==
    \/ StartBatch
    \/ \E i \in inFlight : SettleBatch(i)
    \/ SummaryBatch

\* ------------------------------------ one attempt (createAccount, all files)
\* const maxAttempts of the poll loop, per file
maxAttemptsPart000 == 4
maxAttemptsPart001 == 12
maxAttemptsApp == 12

pollMaxAttempts ==
    CASE variant = "launchNext" -> maxAttemptsPart000
      [] variant = "race" -> maxAttemptsPart001
      [] OTHER -> maxAttemptsApp

\* what the register and the finalize request can meet
RequestReplies ==
    {"success", "otherMessage", "notObject", "httpError", "emptyBody", "invalidJson",
     "transportError"}

\* regist_sendRequest / verify_sendRequest: the message field of the value
\* returned ("absent": the parsed body is null or has no such field)
sendRequest(reply) ==
    CASE reply = "success" -> "success"
      [] reply = "otherMessage" -> "other"
      [] reply = "notObject" -> "absent"
      [] OTHER -> "error"

\* faulty variant of the success test: any message other than 'error' passes
MessageNotError(message) == message # "error"

\* reqnya && reqnya.message === "success"
MessageIsSuccess(message) == message = "success"

\* what one mailbox probe can meet
ProbeReplies == {"code", "empty", "transportError"}

\* functionGetLink: the code found ("code"), '' when the mailbox has none,
\* null when the request threw
functionGetLink(reply) ==
    CASE reply = "code" -> "code"
      [] reply = "empty" -> "''"
      [] OTHER -> "null"

\* !verificationCode
Falsy(value) == value \in {"''", "null"}

\* faulty variant of the loop condition: one probe too many
PollAgainInclusive(code, attempts) == ~code /\ attempts <= pollMaxAttempts

\* while (!verificationCode && attempts < maxAttempts)
PollAgain(code, attempts) == ~code /\ attempts < pollMaxAttempts

\* the delay after an empty probe: guarded by attempts < maxAttempts in
\* part_000, unconditional in part_001 and app.js
DelayAfterEmpty(attempts) ==
    IF variant = "launchNext" THEN attempts < pollMaxAttempts ELSE TRUE

\* the async body of app.js returns no value
Returned(b) ==
    IF variant = "batch" THEN "undefined" ELSE IF b THEN "true" ELSE "false"

InitExec ==
    /\ ePc = "idle"
    /\ eAttempts = 0
    /\ eCode = FALSE
    /\ eProbes = 0
    /\ eDelays = 0
    /\ eProbeErrors = FALSE
    /\ eRegister = "none"
    /\ eRegisterCalls = 0
    /\ eFinalize = "none"
    /\ eFinalizeCalls = 0
    /\ eAppends = 0
    /\ eThrown = "none"
    /\ eFailure = "none"
    /\ eResult = "none"

\* return false (or the catch block), with the failure that was logged
ExecReturnFalse(failure) ==
    /\ ePc' = "returned"
    /\ eFailure' = failure
    /\ eResult' = Returned(FALSE)

\* faulty variant of the use of the run inputs: the domain is taken out of the pool
RunInputsShifted(inputs) == <<inputs[1] - 1, inputs[2], inputs[3]>>

\* the run inputs <<availableDomains.length, selectedProxy, password>> after
\* an attempt has used them: the domain is read by index, the password is
\* read by encryptToTargetHex, the proxy URL by fetchWithProxy
RunInputsUsed(inputs) == <<inputs[1], inputs[2], inputs[3]>>

\* the call: identity generation and encryption, then the register request
\* is sent; an exception thrown here lands in the catch block
ExecCall ==
    /\ ePc = "idle"
    /\ \E thrown \in BOOLEAN :
          IF thrown
          THEN /\ eThrown' = "identity"
               /\ ExecReturnFalse("exception")
               /\ UNCHANGED eRegisterCalls
          ELSE /\ ePc' = "register"
               /\ eRegisterCalls' = eRegisterCalls + 1
               /\ UNCHANGED <<eThrown, eFailure, eResult>>
    /\ LET used == RunInputsUsed(<<availableDomains, selectedProxy, password>>) IN
          /\ availableDomains' = used[1]
          /\ selectedProxy' = used[2]
          /\ password' = used[3]
    /\ UNCHANGED <<eAttempts, eCode, eProbes, eDelays, eProbeErrors, eRegister, eFinalize,
                   eFinalizeCalls, eAppends>>
    /\ UNCHANGED <<orchVars, noDomainsReports, sideVars>>

\* regist_sendRequest returns: anything but 'success' ends the attempt,
\* 'success' sends the first probe
ExecRegisterReply ==
    /\ ePc = "register"
    /\ \E reply \in RequestReplies :
          /\ eRegister' = reply
          /\ eThrown' = IF reply = "transportError" THEN "register" ELSE eThrown
          /\ IF MessageIsSuccess(sendRequest(reply))
             THEN /\ ePc' = "probe"
                  /\ eProbes' = eProbes + 1
                  /\ UNCHANGED <<eFailure, eResult>>
             ELSE /\ ExecReturnFalse("register")
                  /\ UNCHANGED eProbes
    /\ UNCHANGED <<eAttempts, eCode, eDelays, eProbeErrors, eRegisterCalls, eFinalize,
                   eFinalizeCalls, eAppends>>
    /\ UNCHANGED <<orchVars, loadVars, sideVars>>

\* faulty variant of the step after the loop: finalizes without a code
ExecAfterPollNoCheck(code) ==
    /\ ePc' = "finalize"
    /\ eFinalizeCalls' = eFinalizeCalls + 1
    /\ UNCHANGED <<eFailure, eResult>>

\* the loop is left: without a code the attempt fails, with one the
\* finalize request is sent
ExecAfterPoll(code) ==
    IF code
    THEN /\ ePc' = "finalize"
         /\ eFinalizeCalls' = eFinalizeCalls + 1
         /\ UNCHANGED <<eFailure, eResult>>
    ELSE /\ ExecReturnFalse("timeout")
         /\ UNCHANGED eFinalizeCalls

\* the loop condition: probe again or leave the loop
ExecLoopCondition(code, attempts) ==
    IF PollAgain(code, attempts)
    THEN /\ ePc' = "probe"
         /\ eProbes' = eProbes + 1
         /\ UNCHANGED <<eFailure, eResult, eFinalizeCalls>>
    ELSE /\ ExecAfterPoll(code)
         /\ UNCHANGED eProbes

\* functionGetLink returns: a falsy value counts an empty probe and, where
\* the file says so, waits; then the loop condition
ExecProbeReply ==
    /\ ePc = "probe"
    /\ \E reply \in ProbeReplies :
          /\ eProbeErrors' = (eProbeErrors \/ reply = "transportError")
          /\ eThrown' = IF reply = "transportError" THEN "probe" ELSE eThrown
          /\ IF Falsy(functionGetLink(reply))
             THEN /\ eAttempts' = eAttempts + 1
                  /\ UNCHANGED eCode
                  /\ IF DelayAfterEmpty(eAttempts + 1)
                     THEN /\ ePc' = "delay"
                          /\ eDelays' = eDelays + 1
                          /\ UNCHANGED <<eProbes, eFailure, eResult, eFinalizeCalls>>
                     ELSE /\ ExecLoopCondition(FALSE, eAttempts + 1)
                          /\ UNCHANGED eDelays
             ELSE /\ eCode' = TRUE
                  /\ ExecLoopCondition(TRUE, eAttempts)
                  /\ UNCHANGED <<eAttempts, eDelays>>
    /\ UNCHANGED <<eRegister, eRegisterCalls, eFinalize, eAppends>>
    /\ UNCHANGED <<orchVars, loadVars, sideVars>>

\* the setTimeout promise resolves: the loop condition
ExecDelayDone ==
    /\ ePc = "delay"
    /\ ExecLoopCondition(eCode, eAttempts)
    /\ UNCHANGED <<eAttempts, eCode, eDelays, eProbeErrors, eRegister, eRegisterCalls,
                   eFinalize, eAppends, eThrown>>
    /\ UNCHANGED <<orchVars, loadVars, sideVars>>

\* verify_sendRequest returns: 'success' starts the save, anything else
\* ends the attempt
ExecFinalizeReply ==
    /\ ePc = "finalize"
    /\ \E reply \in RequestReplies :
          /\ eFinalize' = reply
          /\ eThrown' = IF reply = "transportError" THEN "finalize" ELSE eThrown
          /\ IF MessageIsSuccess(sendRequest(reply))
             THEN /\ ePc' = "save"
                  /\ UNCHANGED <<eFailure, eResult>>
             ELSE ExecReturnFalse("finalize")
    /\ UNCHANGED <<eAttempts, eCode, eProbes, eDelays, eProbeErrors, eRegister,
                   eRegisterCalls, eFinalizeCalls, eAppends>>
    /\ UNCHANGED <<orchVars, loadVars, sideVars>>

\* saveToFile returns, whether fs.writeFile appended the record or threw
\* (the exception is caught inside saveToFile); then return true
ExecSaveDone ==
    /\ ePc = "save"
    /\ \E appended \in saveToFile(eAppends) :
          /\ eAppends' = appended
          /\ eThrown' = IF appended = eAppends THEN "save" ELSE eThrown
    /\ ePc' = "returned"
    /\ eResult' = Returned(TRUE)
    /\ UNCHANGED <<eAttempts, eCode, eProbes, eDelays, eProbeErrors, eRegister,
                   eRegisterCalls, eFinalize, eFinalizeCalls, eFailure>>
    /\ UNCHANGED <<orchVars, loadVars, sideVars>>

NextExec ==
    \/ ExecCall
    \/ ExecRegisterReply
    \/ ExecProbeReply
    \/ ExecDelayDone
    \/ ExecFinalizeReply
    \/ ExecSaveDone

\* ------------------------------- a run whose attempt 1 is executed in detail
Orchestrated == variant \in {"launchNext", "race"}

\* the phases of attempt 1 while it is in flight
ExecWatched == 1 \in inFlight \ settled /\ NextExec

\* createAccount of attempt 1 has returned and its .then reaction runs
ThenWatched ==
    /\ Orchestrated
    /\ 1 \in inFlight \ settled
    /\ ePc = "returned"
    /\ successCount' = CountSuccess(successCount, eResult = "true")
    /\ trueCount' = IF eResult = "true" THEN trueCount + 1 ELSE trueCount
    /\ saved' = saved + eAppends
    /\ settled' = settled \cup {1}
    /\ UNCHANGED <<variant, script, loopCount, MAX_CONCURRENT_REQUESTS, attemptNumber,
                   inFlight, resolved, pc, awaited, shownSuccess, shortfall>>
    /\ UNCHANGED <<execVars, loadVars, sideVars>>

NextWatched ==
    \/ StartLaunchNext
    \/ StartRace
    \/ ExecWatched
    \/ ThenWatched
    \/ \E i \in inFlight \ {1} : ThenLaunchNext(i)
    \/ \E i \in inFlight \ {1} : ThenRace(i)
    \/ \E i \in inFlight : FinallyLaunchNext(i)
    \/ \E i \in inFlight : FinallyRace(i)
    \/ (RaceResume /\ attemptNumber' <= MaxWatchedAttempts)
    \/ SummaryLaunchNext
    \/ SummaryRace

\* ------------------------------------------------ the domain pool (main)
\* what the scrape of generator.email can meet
DomainReplies == {"list", "noMatch", "httpError", "transportError"}

\* getEmailRandom: the number of domains scraped, none on any failure
getEmailRandom(reply, n) == IF reply = "list" THEN n ELSE 0

\* faulty variant of the pool check: the check is left out
DomainsMissingNever(n) == FALSE

\* !availableDomains || availableDomains.length === 0
DomainsMissing(n) == n = 0

\* const availableDomains = await getEmailRandom(selectedProxy); an empty
\* pool is reported and main returns
LoadDomains ==
    /\ pc = "load"
    /\ \E reply \in DomainReplies, n \in 1 .. MaxDomains :
          /\ availableDomains' = getEmailRandom(reply, n)
          /\ IF DomainsMissing(getEmailRandom(reply, n))
             THEN /\ noDomainsReports' = noDomainsReports + 1
                  /\ pc' = "nodomains"
             ELSE /\ pc' = "start"
                  /\ UNCHANGED noDomainsReports
    /\ UNCHANGED <<selectedProxy, password>>
    /\ UNCHANGED <<variant, script, loopCount, MAX_CONCURRENT_REQUESTS, successCount,
                   attemptNumber, inFlight, settled, resolved, awaited, trueCount, saved,
                   shownSuccess, shortfall>>
    /\ UNCHANGED <<execVars, sideVars>>

\* ------------------------- commission rate (DUAL_COMMISSION_SYSTEM.md)
\* a field that is undefined or null
Absent == -1

\* the default brackets, amounts in centavos (maxProfit null: Absent)
DefaultBrackets ==
    << [minProfit |-> 0, maxProfit |-> 29999, rate |-> 10],
       [minProfit |-> 30000, maxProfit |-> 59999, rate |-> 15],
       [minProfit |-> 60000, maxProfit |-> 99999, rate |-> 20],
       [minProfit |-> 100000, maxProfit |-> Absent, rate |-> 25] >>

\* bracket configurations explored: the defaults, none, one custom bracket
BracketConfigs ==
    {DefaultBrackets, <<>>, << [minProfit |-> 50000, maxProfit |-> Absent, rate |-> 40] >>}

\* profits explored, in centavos: the interior and both edges of every
\* default bracket
Profits ==
    {0, 1, 10000, 29998, 29999, 30000, 30001, 45000, 59999, 60000, 80000, 99999,
     100000, 100001, 500000}

\* values of user.profitPercent explored
ProfitPercents == {Absent, 0, 12, 30, 100}

CommissionModes == {"flatRate", "bracket", "undefined"}

\* v || dflt
OrDefault(v, dflt) == IF v = Absent \/ v = 0 THEN dflt ELSE v

\* faulty variant of the bracket test: the lower edge is excluded
InBracketAboveMin(profit, bracket) ==
    profit > bracket.minProfit /\ (bracket.maxProfit = Absent \/ profit <= bracket.maxProfit)

\* profit >= bracket.minProfit && (bracket.maxProfit === null || profit <= bracket.maxProfit)
InBracket(profit, bracket) ==
    profit >= bracket.minProfit /\ (bracket.maxProfit = Absent \/ profit <= bracket.maxProfit)

\* positions of the brackets that contain the profit
Matching(profit, brackets) == {i \in 1 .. Len(brackets) : InBracket(profit, brackets[i])}

\* getCommissionRateForProfit(profit, userId), user being the user found
getCommissionRateForProfit(profit, user) ==
    IF user.exists /\ user.commissionMode = "flatRate"
    THEN OrDefault(user.profitPercent, 20)
    ELSE LET found == Matching(profit, cBrackets) IN
         IF found # {}
         THEN cBrackets[CHOOSE i \in found : \A j \in found : i <= j].rate
         ELSE IF user.exists THEN OrDefault(user.profitPercent, 25) ELSE 25

InitCommissionIdle ==
    /\ cPc = "idle"
    /\ cUserExists = FALSE
    /\ cMode = "undefined"
    /\ cProfitPercent = Absent
    /\ cBrackets = <<>>
    /\ cProfit = 0
    /\ cRate = Absent

\* the dashboard calls the function for a sale
ComputeCommission ==
    /\ cPc = "input"
    /\ cPc' = "computed"
    /\ cRate' = getCommissionRateForProfit(cProfit,
                    [exists |-> cUserExists, commissionMode |-> cMode,
                     profitPercent |-> cProfitPercent])
    /\ UNCHANGED <<cUserExists, cMode, cProfitPercent, cBrackets, cProfit>>
    /\ UNCHANGED <<orchVars, execVars, loadVars, otherVars>>

\* ----------------------------------- the prompts of launch-next (part_000)
DEFAULT_BATCH_SIZE == 50
DEFAULT_CONCURRENCY == DEFAULT_BATCH_SIZE

\* the values config.maxConcurrent and config.batchSize take
ConfigNumbers == {Absent, 0, 2, 60}

\* Number(x) > 0 ? Number(x) : fallback
PositiveOr(x, fallback) == IF x > 0 THEN x ELSE fallback

\* the answers typed at a prompt, as sequences of characters ('' is Enter)
PromptAnswers ==
    { <<>>, <<"0">>, <<"-", "2">>, <<"3">>, <<"8", "x">>, <<"a">>, <<" ", "4">>,
      <<"1", "2">> }

IsDigit(c) == c \in {"0", "1", "2", "3", "4", "5", "6", "7", "8", "9"}

DigitValue(c) ==
    CASE c = "0" -> 0 [] c = "1" -> 1 [] c = "2" -> 2 [] c = "3" -> 3 [] c = "4" -> 4
      [] c = "5" -> 5 [] c = "6" -> 6 [] c = "7" -> 7 [] c = "8" -> 8 [] c = "9" -> 9

RECURSIVE SkipBlanks(_)
SkipBlanks(s) == IF s # <<>> /\ Head(s) = " " THEN SkipBlanks(Tail(s)) ELSE s

RECURSIVE ParseDigits(_, _)
ParseDigits(s, acc) ==
    IF s = <<>> \/ ~IsDigit(Head(s)) THEN acc
    ELSE ParseDigits(Tail(s), acc * 10 + DigitValue(Head(s)))

\* parseInt(s, 10): leading blanks, an optional sign, then the longest run
\* of digits; NaN when there is no digit
parseInt(s) ==
    LET t == SkipBlanks(s)
        negative == t # <<>> /\ Head(t) = "-"
        u == IF t # <<>> /\ Head(t) \in {"-", "+"} THEN Tail(t) ELSE t
    IN  IF u = <<>> \/ ~IsDigit(Head(u))
        THEN [nan |-> TRUE, value |-> 0]
        ELSE [nan |-> FALSE,
              value |-> IF negative THEN 0 - ParseDigits(u, 0) ELSE ParseDigits(u, 0)]

\* !isNaN(parsed) && parsed > 0
ParsedPositive(s) == ~parseInt(s).nan /\ parseInt(s).value > 0

InitPromptIdle ==
    /\ qPc = "idle"
    /\ configMaxConcurrent = Absent
    /\ configBatchSize = Absent
    /\ BATCH_SIZE = DEFAULT_BATCH_SIZE
    /\ shownConcurrency = Absent
    /\ shownBatchSize = Absent
    /\ concurrencyInput = <<>>
    /\ batchInput = <<>>

\* readline.question(`Max concurrent attempts? (press Enter for ...)`) is answered
AskConcurrency ==
    /\ qPc = "concurrency"
    /\ shownConcurrency' = MAX_CONCURRENT_REQUESTS
    /\ concurrencyInput' \in PromptAnswers
    /\ qPc' = "batch"
    /\ UNCHANGED <<configMaxConcurrent, configBatchSize, BATCH_SIZE, shownBatchSize,
                   batchInput>>
    /\ UNCHANGED <<orchVars, execVars, loadVars, commVars, findVars, subVars>>

\* readline.question(`Batch size? (press Enter for ...)`) is answered and
\* promptUser resolves
AskBatch ==
    /\ qPc = "batch"
    /\ shownBatchSize' = BATCH_SIZE
    /\ batchInput' \in PromptAnswers
    /\ qPc' = "answered"
    /\ UNCHANGED <<configMaxConcurrent, configBatchSize, BATCH_SIZE, shownConcurrency,
                   concurrencyInput>>
    /\ UNCHANGED <<orchVars, execVars, loadVars, commVars, findVars, subVars>>

\* main continues after await promptUser(): the batch size, then the limit
ParseAnswers ==
    /\ qPc = "answered"
    /\ BATCH_SIZE' = IF ParsedPositive(batchInput)
                        THEN parseInt(batchInput).value ELSE BATCH_SIZE
    /\ MAX_CONCURRENT_REQUESTS' = IF ParsedPositive(concurrencyInput)
                                     THEN parseInt(concurrencyInput).value
                                     ELSE BATCH_SIZE'
    /\ qPc' = "parsed"
    /\ UNCHANGED <<configMaxConcurrent, configBatchSize, shownConcurrency, shownBatchSize,
                   concurrencyInput, batchInput>>
    /\ UNCHANGED <<variant, script, loopCount, successCount, attemptNumber, inFlight,
                   settled, resolved, pc, awaited, trueCount, saved, shownSuccess,
                   shortfall>>
    /\ UNCHANGED <<execVars, loadVars, commVars, findVars, subVars>>

NextPrompt == AskConcurrency \/ AskBatch \/ ParseAnswers

\* --------------------- the college lookup of the submitter (part_000)
MaxColleges == 2    \* largest number of colleges loaded

\* findCollegeByName returns null
NoCollege == 0

\* the names met in the data files, as sequences of characters
RawNames ==
    { <<>>, <<"a", "b">>, <<"A", "B">>, <<"a", "b", "c">>, <<"a">>, <<"c">>,
      <<"a", "-", "b">>, <<"A", " ", " ", "b">>, <<"a", "b", "(", "c", ")">>,
      <<"(", "a", ")">> }

IsAlnum(c) == c \in {"a", "b", "c", "A", "B", "C"} \/ IsDigit(c)

toLowerCase(c) == CASE c = "A" -> "a" [] c = "B" -> "b" [] c = "C" -> "c" [] OTHER -> c

\* .replace(/\([^)]*\)/g, ' '): each '(' with a ')' after it is replaced,
\* up to the nearest ')', by one blank
RECURSIVE StripParens(_)
StripParens(s) ==
    IF s = <<>> THEN <<>>
    ELSE IF Head(s) = "(" /\ \E j \in 2 .. Len(s) : s[j] = ")"
         THEN LET close == CHOOSE j \in 2 .. Len(s) :
                              s[j] = ")" /\ \A k \in 2 .. (j - 1) : s[k] # ")"
              IN  <<" ">> \o StripParens(SubSeq(s, close + 1, Len(s)))
         ELSE <<Head(s)>> \o StripParens(Tail(s))

RECURSIVE SkipNonAlnum(_)
SkipNonAlnum(s) == IF s # <<>> /\ ~IsAlnum(Head(s)) THEN SkipNonAlnum(Tail(s)) ELSE s

\* .replace(/[^a-zA-Z0-9]+/g, ' '): each run of other characters becomes one blank
RECURSIVE CollapseNonAlnum(_)
CollapseNonAlnum(s) ==
    IF s = <<>> THEN <<>>
    ELSE IF ~IsAlnum(Head(s)) THEN <<" ">> \o CollapseNonAlnum(SkipNonAlnum(s))
         ELSE <<Head(s)>> \o CollapseNonAlnum(Tail(s))

\* .trim()
RECURSIVE Trim(_)
Trim(s) ==
    IF s = <<>> THEN <<>>
    ELSE IF Head(s) = " " THEN Trim(Tail(s))
         ELSE IF s[Len(s)] = " " THEN Trim(SubSeq(s, 1, Len(s) - 1))
              ELSE s

normalizeName(name) ==
    IF name = <<>> THEN <<>>
    ELSE LET t == Trim(CollapseNonAlnum(StripParens(name)))
         IN  [i \in 1 .. Len(t) |-> toLowerCase(t[i])]

\* a.includes(b)
includes(a, b) ==
    /\ Len(b) <= Len(a)
    /\ \E i \in 0 .. (Len(a) - Len(b)) : SubSeq(a, i + 1, i + Len(b)) = b

\* faulty variant of ScanColleges: the first college that matches in any way is returned
RECURSIVE ScanCollegesFirstMatch(_, _, _, _)
ScanCollegesFirstMatch(map, target, i, partialMatch) ==
    IF i > Len(map) THEN partialMatch
    ELSE LET normalizedCollege == normalizeName(map[i])
         IN  IF \/ normalizedCollege = target
                \/ includes(normalizedCollege, target)
                \/ includes(target, normalizedCollege)
             THEN i
             ELSE ScanCollegesFirstMatch(map, target, i + 1, partialMatch)

\* for (const college of collegesMap.values()) { ... } return partialMatch
RECURSIVE ScanColleges(_, _, _, _)
ScanColleges(map, target, i, partialMatch) ==
    IF i > Len(map) THEN partialMatch
    ELSE LET normalizedCollege == normalizeName(map[i])
         IN  IF normalizedCollege = target THEN i
             ELSE ScanColleges(map, target, i + 1,
                      IF /\ partialMatch = NoCollege
                         /\ \/ includes(normalizedCollege, target)
                            \/ includes(target, normalizedCollege)
                      THEN i ELSE partialMatch)

findCollegeByName(map, schoolName) ==
    LET target == normalizeName(schoolName)
    IN  IF target = <<>> THEN NoCollege
        ELSE ScanColleges(map, target, 1, NoCollege)

\* the maps of at most n colleges
CollegeMaps(n) == UNION { [1 .. k -> RawNames] : k \in 0 .. n }

InitFindIdle ==
    /\ collegesMap = <<>>
    /\ fPc = "idle"
    /\ fSchool = <<>>
    /\ fResult = NoCollege

\* processStudent looks the student's school up
FindCollege ==
    /\ fPc = "input"
    /\ fPc' = "returned"
    /\ fResult' = findCollegeByName(collegesMap, fSchool)
    /\ UNCHANGED <<collegesMap, fSchool>>
    /\ UNCHANGED <<orchVars, execVars, loadVars, commVars, promptVars, subVars>>

\* ------------------------ the verification submitter (part_000, main)
MaxStudents == 2    \* largest number of students loaded

\* the values of currentStep the service reports ("pending": any other step)
Steps == {"collectStudentPersonalInfo", "sso", "docUpload", "success", "pending"}

\* what checkStatus and cancelSso return
StatusReplies ==
    {[success |-> TRUE, currentStep |-> st] : st \in Steps}
        \cup {[success |-> FALSE, currentStep |-> "none"]}

\* the school names of the students explored: one that matches a college, one that does not
StudentSchools == { <<"A", "B">>, <<"c">> }

\* the college files explored: unreadable or empty, and one college
CollegeFiles == { <<>>, << <<"a", "b", "(", "c", ")">> >> }

\* the student files of at most n students
StudentFiles(n) == UNION { [1 .. k -> StudentSchools] : k \in 0 .. n }

\* no call of processStudent is running
IdleProc ==
    [pc |-> "idle", currentStep |-> "none", firstStep |-> "none", requests |-> 0,
     statusChecks |-> 0, submitCalls |-> 0, ssoCalls |-> 0, uploadCalls |-> 0,
     redirectCalls |-> 0, submitFailed |-> FALSE, ssoFailed |-> FALSE,
     location |-> FALSE, saved |-> 0, result |-> "none"]

\* processStudent starts: await getVerificationDetails(verificationId)
CallDetails == [IdleProc EXCEPT !.pc = "details", !.requests = 1]

\* await checkStatus(verificationId) is issued
CallCheck(q, at) ==
    [q EXCEPT !.pc = at, !.requests = @ + 1, !.statusChecks = @ + 1]

\* return null / return googleResult.url
Return(q, r) == [q EXCEPT !.pc = "returned", !.result = r]

\* faulty variant of NeedsSubmit: the personal information is submitted at every step
NeedsSubmitAlways(step) == TRUE

\* check.currentStep === 'collectStudentPersonalInfo'
NeedsSubmit(step) == step = "collectStudentPersonalInfo"

\* faulty variant of IsSuccessStep: an unknown step is taken for success
IsSuccessStepLoose(step) == step \in {"success", "pending"}

\* currentStep === 'success'
IsSuccessStep(step) == step = "success"

\* the branches after the SSO handling
AfterSso(q) ==
    IF q.currentStep = "docUpload" THEN Return(q, "null")
    ELSE IF IsSuccessStep(q.currentStep)
         THEN [q EXCEPT !.pc = "redirect", !.requests = @ + 1, !.redirectCalls = @ + 1]
         ELSE Return(q, "null")

\* faulty variant of LoopContinues: the loop ends at the first student that fails
LoopStopsOnNull(result, i, n) == result # "null" /\ i < n

\* for (const student of students): another student follows
LoopContinues(result, i, n) == i < n

\* the exit tests of main before the loop
NoInput(id, map, studs) == id = "" \/ Len(map) = 0 \/ Len(studs) = 0

InitSubmitterIdle ==
    /\ mPc = "idle"
    /\ verificationId = ""
    /\ students = <<>>
    /\ mIndex = 0
    /\ mResults = <<>>
    /\ rlClosed = FALSE
    /\ proc = IdleProc

SubmitterFrame == UNCHANGED <<orchVars, execVars, loadVars, commVars, promptVars, findVars>>

MainFrame == UNCHANGED <<mPc, verificationId, students, mIndex, mResults, rlClosed>>

\* main after await askForVerificationId(): the three exit tests, then the
\* first call of processStudent
MainAsked ==
    /\ mPc = "ask"
    /\ IF NoInput(verificationId, collegesMap, students)
       THEN /\ mPc' = "done"
            /\ rlClosed' = TRUE
            /\ UNCHANGED <<mIndex, proc>>
       ELSE /\ mPc' = "student"
            /\ mIndex' = 1
            /\ proc' = CallDetails
            /\ UNCHANGED rlClosed
    /\ UNCHANGED <<verificationId, students, mResults>>
    /\ SubmitterFrame

\* getVerificationDetails returned (its value is not used): the college lookup
DetailsReply ==
    /\ mPc = "student"
    /\ proc.pc = "details"
    /\ proc' = IF findCollegeByName(collegesMap, students[mIndex]) = NoCollege
                THEN Return(proc, "null")
                ELSE CallCheck(proc, "check1")
    /\ MainFrame
    /\ SubmitterFrame

\* the first checkStatus returned
Check1Reply ==
    /\ mPc = "student"
    /\ proc.pc = "check1"
    /\ \E check \in StatusReplies :
          proc' = IF ~check.success
                  THEN Return([proc EXCEPT !.firstStep = "failed"], "null")
                  ELSE IF NeedsSubmit(check.currentStep)
                       THEN [proc EXCEPT !.firstStep = check.currentStep,
                                         !.pc = "submit", !.requests = @ + 1,
                                         !.submitCalls = @ + 1]
                       ELSE CallCheck([proc EXCEPT !.firstStep = check.currentStep],
                                      "check3")
    /\ MainFrame
    /\ SubmitterFrame

\* submitPersonalInfo returned
SubmitReply ==
    /\ mPc = "student"
    /\ proc.pc = "submit"
    /\ \E success \in BOOLEAN :
          proc' = IF ~success
                  THEN Return([proc EXCEPT !.submitFailed = TRUE], "null")
                  ELSE [proc EXCEPT !.pc = "wait3000"]
    /\ MainFrame
    /\ SubmitterFrame

\* the 3 s delay after the submission is over
Wait3000Done ==
    /\ mPc = "student"
    /\ proc.pc = "wait3000"
    /\ proc' = CallCheck(proc, "check2")
    /\ MainFrame
    /\ SubmitterFrame

\* the checkStatus after the submission returned (its value is not used)
Check2Reply ==
    /\ mPc = "student"
    /\ proc.pc = "check2"
    /\ proc' = CallCheck(proc, "check3")
    /\ MainFrame
    /\ SubmitterFrame

\* const status = await checkStatus(verificationId) returned
Check3Reply ==
    /\ mPc = "student"
    /\ proc.pc = "check3"
    /\ \E status \in StatusReplies :
          proc' = IF ~status.success THEN Return(proc, "null")
                  ELSE IF status.currentStep = "sso"
                       THEN [proc EXCEPT !.currentStep = "sso", !.pc = "sso",
                                         !.requests = @ + 1, !.ssoCalls = @ + 1]
                       ELSE AfterSso([proc EXCEPT !.currentStep = status.currentStep])
    /\ MainFrame
    /\ SubmitterFrame

\* cancelSso returned
SsoReply ==
    /\ mPc = "student"
    /\ proc.pc = "sso"
    /\ \E ssoResult \in StatusReplies :
          proc' = IF ssoResult.success
                  THEN [proc EXCEPT !.currentStep = ssoResult.currentStep,
                                    !.pc = "wait2000"]
                  ELSE AfterSso([proc EXCEPT !.ssoFailed = TRUE])
    /\ MainFrame
    /\ SubmitterFrame

\* the 2 s delay after the SSO cancel is over
Wait2000Done ==
    /\ mPc = "student"
    /\ proc.pc = "wait2000"
    /\ proc' = CallCheck(proc, "check4")
    /\ MainFrame
    /\ SubmitterFrame

\* the checkStatus after the SSO cancel returned
Check4Reply ==
    /\ mPc = "student"
    /\ proc.pc = "check4"
    /\ \E newStatus \in StatusReplies :
          proc' = AfterSso(IF newStatus.success
                           THEN [proc EXCEPT !.currentStep = newStatus.currentStep]
                           ELSE proc)
    /\ MainFrame
    /\ SubmitterFrame

\* getgoogleUrl returned, with a location header or without; saveResult
\* appends the URL unless the write fails (the error is caught and logged)
RedirectReply ==
    /\ mPc = "student"
    /\ proc.pc = "redirect"
    /\ \E success \in BOOLEAN, written \in BOOLEAN :
          proc' = IF success
                  THEN Return([proc EXCEPT !.location = TRUE,
                                           !.saved = IF written THEN @ + 1 ELSE @],
                              "url")
                  ELSE Return(proc, "null")
    /\ MainFrame
    /\ SubmitterFrame

\* main continues after await processStudent(...): the delay before the next
\* student, or the end of the loop and rl.close()
MainResume ==
    /\ mPc = "student"
    /\ proc.pc = "returned"
    /\ mResults' = Append(mResults, proc.result)
    /\ IF LoopContinues(proc.result, mIndex, Len(students))
       THEN mPc' = "between" /\ UNCHANGED rlClosed
       ELSE mPc' = "done" /\ rlClosed' = TRUE
    /\ UNCHANGED <<verificationId, students, mIndex, proc>>
    /\ SubmitterFrame

\* the 2 s delay between students is over: the next call of processStudent
BetweenDone ==
    /\ mPc = "between"
    /\ mPc' = "student"
    /\ mIndex' = mIndex + 1
    /\ proc' = CallDetails
    /\ UNCHANGED <<verificationId, students, mResults, rlClosed>>
    /\ SubmitterFrame

NextSubmitter ==
    \/ MainAsked
    \/ DetailsReply
    \/ Check1Reply
    \/ SubmitReply
    \/ Wait3000Done
    \/ Check2Reply
    \/ Check3Reply
    \/ SsoReply
    \/ Wait2000Done
    \/ Check4Reply
    \/ RedirectReply
    \/ MainResume
    \/ BetweenDone

\* what every run that does not concern them starts with
InitSideIdle ==
    /\ InitCommissionIdle
    /\ InitPromptIdle
    /\ InitFindIdle
    /\ InitSubmitterIdle

\* ---------------------------------------------------------------- runs
InitCommon ==
    /\ successCount = 0
    /\ attemptNumber = 0
    /\ inFlight = {}
    /\ settled = {}
    /\ resolved = FALSE
    /\ pc = "start"
    /\ awaited = {}
    /\ trueCount = 0
    /\ saved = 0
    /\ shownSuccess = 0
    /\ shortfall = 0
    /\ InitExec
    /\ availableDomains = 1    \* the pool was loaded and is not empty
    /\ noDomainsReports = 0
    /\ selectedProxy = "proxyUrl"
    /\ password = "configPassword"
    /\ InitSideIdle

Init ==
    /\ variant \in {"launchNext", "race", "batch"}
    /\ script = "free"
    /\ loopCount \in 1 .. MaxLoopCount
    /\ MAX_CONCURRENT_REQUESTS \in 1 .. MaxConcurrency
    /\ InitCommon

Next == NextLaunchNext \/ NextRace \/ NextBatch

Spec == Init /\ [][Next]_vars

\* The launch-next script alone, with the fairness its scheduling gives: the
\* promise job queue runs every queued reaction, and every launched attempt
\* is assumed to resolve.
InitLaunchNext ==
    /\ variant = "launchNext"
    /\ script = "free"
    /\ loopCount \in 1 .. MaxFairLoopCount
    /\ MAX_CONCURRENT_REQUESTS \in 1 .. MaxFairConcurrency
    /\ InitCommon

FairLaunchNext ==
    /\ InitLaunchNext
    /\ [][NextLaunchNext]_vars
    /\ WF_vars(StartLaunchNext)
    /\ WF_vars(\E i \in inFlight : ThenLaunchNext(i))
    /\ WF_vars(\E i \in inFlight : FinallyLaunchNext(i))
    /\ WF_vars(SummaryLaunchNext)

\* The scripted scenario: target 3, concurrency limit 2, attempts 1 and 2
\* fail, attempts 3, 4 and 5 succeed (the budget follows from the code: 9).
InitScenario ==
    /\ variant = "launchNext"
    /\ script = "scenario"
    /\ loopCount = 3
    /\ MAX_CONCURRENT_REQUESTS = 2
    /\ InitCommon

SpecScenario == InitScenario /\ [][NextLaunchNext]_vars

\* Target 5 under every concurrency limit explored.
InitTarget5 ==
    /\ variant = "launchNext"
    /\ script = "free"
    /\ loopCount = 5
    /\ MAX_CONCURRENT_REQUESTS \in 1 .. MaxConcurrency
    /\ InitCommon

SpecTarget5 == InitTarget5 /\ [][NextLaunchNext]_vars

\* The launch-next script alone, with limits above and below twice the target.
InitLaunch ==
    /\ variant = "launchNext"
    /\ script = "free"
    /\ loopCount \in 1 .. MaxLaunchLoopCount
    /\ MAX_CONCURRENT_REQUESTS \in 1 .. MaxLaunchConcurrency
    /\ InitCommon

SpecLaunchNext == InitLaunch /\ [][NextLaunchNext]_vars

\* The launch-next script with the outcome of every attempt index fixed.
InitFixed ==
    /\ variant = "launchNext"
    /\ script \in FixedScripts
    /\ loopCount \in 1 .. MaxFixedLoopCount
    /\ MAX_CONCURRENT_REQUESTS \in 1 .. MaxFixedConcurrency
    /\ InitCommon

SpecFixed == InitFixed /\ [][NextLaunchNext]_vars

\* Runs of the batch orchestrator alone, with more attempts than the
\* concurrency limit the other files would apply.
InitBatch ==
    /\ variant = "batch"
    /\ script = "free"
    /\ loopCount \in 1 .. MaxBatchLoopCount
    /\ MAX_CONCURRENT_REQUESTS \in 1 .. MaxBatchConcurrency
    /\ InitCommon

SpecBatch == InitBatch /\ [][NextBatch]_vars

\* One attempt on its own, in each of the three files.
InitAttempt ==
    /\ variant \in {"launchNext", "race", "batch"}
    /\ script = "free"
    /\ loopCount = 1
    /\ MAX_CONCURRENT_REQUESTS = 1
    /\ InitCommon

SpecExec == InitAttempt /\ [][NextExec]_vars

\* A launch-next or race-based run whose attempt 1 is executed in detail.
InitWatched ==
    /\ variant \in {"launchNext", "race"}
    /\ script = "free"
    /\ loopCount \in 1 .. MaxWatchedLoopCount
    /\ MAX_CONCURRENT_REQUESTS \in 1 .. MaxWatchedConcurrency
    /\ InitCommon

SpecWatched == InitWatched /\ [][NextWatched]_vars

\* A whole run of main, from the loading of the domain pool.
InitDomains ==
    /\ variant \in {"launchNext", "race", "batch"}
    /\ script = "free"
    /\ loopCount \in 1 .. MaxDomainsLoopCount
    /\ MAX_CONCURRENT_REQUESTS \in 1 .. MaxDomainsConcurrency
    /\ successCount = 0
    /\ attemptNumber = 0
    /\ inFlight = {}
    /\ settled = {}
    /\ resolved = FALSE
    /\ pc = "load"
    /\ awaited = {}
    /\ trueCount = 0
    /\ saved = 0
    /\ shownSuccess = 0
    /\ shortfall = 0
    /\ InitExec
    /\ availableDomains = 0
    /\ noDomainsReports = 0
    /\ selectedProxy = "proxyUrl"
    /\ password = "configPassword"
    /\ InitSideIdle

SpecDomains == InitDomains /\ [][LoadDomains \/ Next]_vars

\* One call of getCommissionRateForProfit for every user, bracket
\* configuration and profit explored (no account-creation run is going on).
InitCommission ==
    /\ variant = "batch"
    /\ script = "free"
    /\ loopCount = 1
    /\ MAX_CONCURRENT_REQUESTS = 1
    /\ successCount = 0
    /\ attemptNumber = 0
    /\ inFlight = {}
    /\ settled = {}
    /\ resolved = FALSE
    /\ pc = "off"
    /\ awaited = {}
    /\ trueCount = 0
    /\ saved = 0
    /\ shownSuccess = 0
    /\ shortfall = 0
    /\ InitExec
    /\ availableDomains = 0
    /\ noDomainsReports = 0
    /\ selectedProxy = "proxyUrl"
    /\ password = "configPassword"
    /\ cPc = "input"
    /\ cUserExists \in BOOLEAN
    /\ cMode \in CommissionModes
    /\ cProfitPercent \in ProfitPercents
    /\ cBrackets \in BracketConfigs
    /\ cProfit \in Profits
    /\ cRate = Absent
    /\ InitPromptIdle
    /\ InitFindIdle
    /\ InitSubmitterIdle

SpecCommission == InitCommission /\ [][ComputeCommission]_vars

\* The launch-next script from the loading of the module to the end of the
\* parsing of the answers, for every configuration and answer explored.
InitPrompt ==
    /\ variant = "launchNext"
    /\ script = "free"
    /\ loopCount = 1
    /\ configMaxConcurrent \in ConfigNumbers
    /\ configBatchSize \in ConfigNumbers
    /\ BATCH_SIZE = PositiveOr(configBatchSize, DEFAULT_BATCH_SIZE)
    /\ MAX_CONCURRENT_REQUESTS = PositiveOr(configMaxConcurrent, DEFAULT_CONCURRENCY)
    /\ successCount = 0
    /\ attemptNumber = 0
    /\ inFlight = {}
    /\ settled = {}
    /\ resolved = FALSE
    /\ pc = "prompt"
    /\ awaited = {}
    /\ trueCount = 0
    /\ saved = 0
    /\ shownSuccess = 0
    /\ shortfall = 0
    /\ InitExec
    /\ availableDomains = 0
    /\ noDomainsReports = 0
    /\ selectedProxy = "proxyUrl"
    /\ password = "configPassword"
    /\ InitCommissionIdle
    /\ qPc = "concurrency"
    /\ shownConcurrency = Absent
    /\ shownBatchSize = Absent
    /\ concurrencyInput = <<>>
    /\ batchInput = <<>>
    /\ InitFindIdle
    /\ InitSubmitterIdle

SpecPrompt == InitPrompt /\ [][NextPrompt]_vars

\* One call of findCollegeByName for every map and school name explored
\* (no account-creation run is going on).
InitFind ==
    /\ variant = "batch"
    /\ script = "free"
    /\ loopCount = 1
    /\ MAX_CONCURRENT_REQUESTS = 1
    /\ successCount = 0
    /\ attemptNumber = 0
    /\ inFlight = {}
    /\ settled = {}
    /\ resolved = FALSE
    /\ pc = "off"
    /\ awaited = {}
    /\ trueCount = 0
    /\ saved = 0
    /\ shownSuccess = 0
    /\ shortfall = 0
    /\ InitExec
    /\ availableDomains = 0
    /\ noDomainsReports = 0
    /\ selectedProxy = "proxyUrl"
    /\ password = "configPassword"
    /\ InitCommissionIdle
    /\ InitPromptIdle
    /\ collegesMap \in CollegeMaps(MaxColleges)
    /\ fPc = "input"
    /\ fSchool \in RawNames
    /\ fResult = NoCollege
    /\ InitSubmitterIdle

SpecFind == InitFind /\ [][FindCollege]_vars

\* One run of the submitter's main for every answer and every pair of data
\* files explored (no account-creation run is going on).
InitSubmitter ==
    /\ variant = "batch"
    /\ script = "free"
    /\ loopCount = 1
    /\ MAX_CONCURRENT_REQUESTS = 1
    /\ successCount = 0
    /\ attemptNumber = 0
    /\ inFlight = {}
    /\ settled = {}
    /\ resolved = FALSE
    /\ pc = "off"
    /\ awaited = {}
    /\ trueCount = 0
    /\ saved = 0
    /\ shownSuccess = 0
    /\ shortfall = 0
    /\ InitExec
    /\ availableDomains = 0
    /\ noDomainsReports = 0
    /\ selectedProxy = "proxyUrl"
    /\ password = "configPassword"
    /\ InitCommissionIdle
    /\ InitPromptIdle
    /\ collegesMap \in CollegeFiles
    /\ fPc = "idle"
    /\ fSchool = <<>>
    /\ fResult = NoCollege
    /\ mPc = "ask"
    /\ verificationId \in {"", "verificationId"}
    /\ students \in StudentFiles(MaxStudents)
    /\ mIndex = 0
    /\ mResults = <<>>
    /\ rlClosed = FALSE
    /\ proc = IdleProc

SpecSubmitter == InitSubmitter /\ [][NextSubmitter]_vars

\* ---------------------------------------------------------------- claims
\* attempts whose createAccount has returned (their .then has run)
ResolvedCount == attemptNumber - Cardinality(inFlight \ settled)

\* C1: in the launch-next and the race-based orchestrator the number of
\* attempts in flight never exceeds MAX_CONCURRENT_REQUESTS, whatever the
\* order in which attempts complete.
C1_ConcurrencyCeiling ==
    Orchestrated => Cardinality(inFlight) <= MAX_CONCURRENT_REQUESTS

\* a full in-flight set that still holds attempt 1 after later attempts
\* completed first and their slots were refilled
C1_Witness ==
    /\ variant = "launchNext"
    /\ MAX_CONCURRENT_REQUESTS >= 2
    /\ Cardinality(inFlight) = MAX_CONCURRENT_REQUESTS
    /\ 1 \in inFlight
    /\ attemptNumber > MAX_CONCURRENT_REQUESTS

\* C2: in the launch-next orchestrator the number of attempts launched
\* never exceeds maxAttempts.
C2_AttemptBudget ==
    variant = "launchNext" => attemptNumber <= Max(loopCount * 3, loopCount + MAX_CONCURRENT_REQUESTS)

\* the budget is spent, everything has drained and the target is not reached
C2_Witness ==
    /\ variant = "launchNext"
    /\ attemptNumber = maxAttempts
    /\ inFlight = {}
    /\ successCount < loopCount
    /\ pc = "done"

\* C3: with every launched attempt resolving, the launch-next run eventually
\* resolves and prints its summary, for every mix of outcomes.
C3_Terminates == <>(pc = "done")

\* the summary is reached in the run where every attempt failed
C3_Witness ==
    /\ variant = "launchNext"
    /\ pc = "done"
    /\ trueCount = 0
    /\ attemptNumber = maxAttempts

\* C4: the race-based run launches a bounded number of attempts (the
\* reference budget max(3 * target, target + limit)) and so reaches its
\* summary even if every attempt fails.
C4_RaceAttemptsBounded ==
    variant = "race" =>
        attemptNumber <= Max(loopCount * 3, loopCount + MAX_CONCURRENT_REQUESTS)

\* C5: once successCount has reached loopCount no further attempt is
\* launched (attemptNumber never changes again); running attempts complete.
C5_NoLaunchAfterTarget ==
    [][(Orchestrated /\ successCount >= loopCount) => attemptNumber' = attemptNumber]_vars

\* an attempt that was in flight when the target was reached has completed
\* and has been counted
C5_Witness ==
    /\ variant = "race"
    /\ successCount > loopCount
    /\ inFlight # {}

\* C6: successCount equals the number of attempts that resolved with
\* outcome true; it changes only in the step in which one attempt resolves,
\* and then by exactly one.
C6_SuccessCountExact ==
    /\ [](Orchestrated => successCount = trueCount)
    /\ [][successCount' # successCount =>
            /\ successCount' = successCount + 1
            /\ \E i \in inFlight \ settled : settled' = settled \cup {i}]_vars

\* some attempts resolved true and some resolved false
C6_Witness ==
    /\ variant = "launchNext"
    /\ successCount >= 2
    /\ successCount < ResolvedCount

\* C7: the launch-next summary is printed only when inFlight is empty and
\* the target is reached or the budget is spent.
C7_DoneOnlyWhenDrained ==
    (variant = "launchNext" /\ pc = "done") =>
        /\ inFlight = {}
        /\ (successCount >= loopCount \/ attemptNumber >= maxAttempts)

\* C8: the race-based and the batch summary are printed only after every
\* launched attempt has resolved; the count the race-based summary shows
\* includes the attempts that were in flight when the target was reached.
C8_SummaryAfterDrain ==
    (variant \in {"race", "batch"} /\ pc = "done") =>
        /\ inFlight = {}
        /\ settled = {}
        /\ (variant = "race" => shownSuccess = trueCount)

\* a race-based summary showing more successes than the target
C8_Witness ==
    /\ variant = "race"
    /\ pc = "done"
    /\ shownSuccess > loopCount

\* C9 (as stated): in the scripted scenario every run ends with
\* successCount = 3 and 5 attempts launched, and no attempt beyond index 5
\* is ever launched.
C9_Original ==
    /\ attemptNumber <= 5
    /\ (pc = "done" => (successCount = 3 /\ attemptNumber = 5))

\* C9 (amended): in the scripted scenario the summary is printed with at
\* least 3 successes counted and no shortfall, at least 5 attempts have been
\* launched by then, and never more than the budget of 9.
C9_ScenarioOutcome ==
    /\ attemptNumber <= 9
    /\ (pc = "done" =>
            /\ successCount >= 3
            /\ attemptNumber >= 5
            /\ shortfall = 0)

\* a scripted run that has ended with a sixth attempt launched
C9_Witness ==
    /\ pc = "done"
    /\ inFlight = {}
    /\ attemptNumber = 6
    /\ successCount = 3

C11_Sequential ==
    /\ []((Orchestrated /\ MAX_CONCURRENT_REQUESTS = 1) => inFlight \subseteq {attemptNumber})
    /\ [][(Orchestrated /\ MAX_CONCURRENT_REQUESTS = 1 /\ attemptNumber' # attemptNumber) =>
            /\ attemptNumber' = attemptNumber + 1
            /\ inFlight \ settled = {}
            /\ inFlight' = {attemptNumber'}]_vars

\* a sequential race-based run in which the third attempt is running
C11_Witness ==
    /\ variant = "race"
    /\ MAX_CONCURRENT_REQUESTS = 1
    /\ attemptNumber = 3
    /\ inFlight = {3}

\* C17 (as stated): the number of records appended to accounts.txt equals
\* the number of attempts that have returned true, also when the write fails.
C17_RecordPerSuccess ==
    Orchestrated => saved = trueCount

\* C20: attempt indices are assigned at launch as 1, 2, 3, ... with no gap
\* and no reuse: the attempts a step adds to the in-flight set are exactly
\* the next indices, every in-flight index has been assigned, and an index
\* that left the set never returns.
C20_FreshIndices ==
    /\ [](Orchestrated => inFlight \subseteq 1 .. attemptNumber)
    /\ [][Orchestrated =>
            /\ attemptNumber' >= attemptNumber
            /\ inFlight' \ inFlight = (attemptNumber + 1) .. attemptNumber']_vars

\* a failed attempt was followed by a retry under a new index while an
\* earlier attempt is still in flight
C20_Witness ==
    /\ variant = "launchNext"
    /\ trueCount = 0
    /\ 1 \in inFlight
    /\ 2 \notin inFlight
    /\ attemptNumber >= 4

\* C12: the poll loop makes at most M probes (M = 4 in part_000, 12 in
\* part_001 and app.js); a code arriving at probe N ends the loop after
\* exactly N probes, holding the code; M empty probes end it after exactly
\* M probes with the timeout failure and the attempt false.
C12_PollBound ==
    /\ [](/\ eProbes <= pollMaxAttempts
          /\ eCode => (eProbes = eAttempts + 1 /\ ePc \in {"finalize", "save", "returned"})
          /\ eFailure = "timeout" =>
                (eProbes = pollMaxAttempts /\ eAttempts = pollMaxAttempts /\ ~eCode
                 /\ eResult # "true")
          /\ (ePc = "returned" /\ eRegister = "success" /\ ~eCode) => eFailure = "timeout")
    /\ [][eCode => eProbes' = eProbes]_vars

C12_Witness ==
    variant = "race" /\ eCode /\ eProbes = maxAttemptsPart001 /\ ePc = "finalize"

\* C13 (as stated): in each of the three files a delay occurs only between
\* two consecutive probes, so once the poll loop is left the delays are one
\* fewer than the probes (M - 1 for a timed-out attempt).
C13_DelaysBetweenProbes ==
    (eProbes > 0 /\ ePc \notin {"probe", "delay"}) => eDelays = eProbes - 1

\* C14 (as stated): a probe whose request threw is not counted as "no code
\* yet", and an attempt in which a probe threw does not fail as a timeout.
C14_ProbeErrorDistinct ==
    /\ [](eProbeErrors => eFailure # "timeout")
    /\ [][(~eProbeErrors /\ eProbeErrors') => eAttempts' = eAttempts]_vars

\* C15: a register reply other than 'success' (HTTP error, empty body,
\* unparseable body, transport exception, any other message) makes
\* createAccount return false at once: no probe, no finalize request, no
\* record appended.
C15_RegisterFailureStops ==
    eRegister \notin {"none", "success"} =>
        /\ ePc = "returned"
        /\ eFailure = "register"
        /\ variant # "batch" => eResult = "false"
        /\ eProbes = 0
        /\ eFinalizeCalls = 0
        /\ eAppends = 0

C15_Witness ==
    variant = "launchNext" /\ eRegister = "otherMessage" /\ ePc = "returned"

\* C18 (as stated): an exception in any phase of an attempt (identity
\* generation, register, probe, finalize, save) makes its outcome false.
C18_ExceptionMeansFalse ==
    (ePc = "returned" /\ eThrown # "none" /\ variant # "batch") => eResult = "false"

\* C16: createAccount returns true exactly when the register reply was
\* 'success', the poll loop obtained a code and the finalize reply was
\* 'success'; the phases run in that order, finalize at most once and only
\* with a code; a timeout makes the attempt false and leaves the
\* orchestrator launching further attempts.
C16_TrueIffAllPhases ==
    /\ ePc = "returned" =>
          (eResult = "true" <=> (eRegister = "success" /\ eCode /\ eFinalize = "success"))
    /\ eRegisterCalls <= 1 /\ eFinalizeCalls <= 1
    /\ eProbes > 0 => eRegister = "success"
    /\ eFinalizeCalls > 0 => (eCode /\ eProbes > 0)
    /\ eFinalize # "none" => eFinalizeCalls > 0
    /\ eFailure = "timeout" => eResult = "false"
    /\ (eFailure = "timeout" /\ 1 \notin inFlight /\ successCount < loopCount) =>
          IF variant = "launchNext"
          THEN attemptNumber < maxAttempts =>
                  (~resolved /\ Cardinality(inFlight) = MAX_CONCURRENT_REQUESTS)
          ELSE pc = "race"

C16_Witness ==
    /\ variant = "launchNext"
    /\ eFailure = "timeout"
    /\ 1 \notin inFlight
    /\ successCount < loopCount
    /\ attemptNumber > MAX_CONCURRENT_REQUESTS
    /\ inFlight # {}

\* C19: in all three files an empty domain pool ends the run before any
\* attempt: attemptNumber stays 0, nothing is in flight, no register request
\* is made, nothing is written, and 'No domains available' is reported
\* exactly once; a non-empty pool is never reported.
C19_NoDomainsNoAttempt ==
    /\ (pc # "load" /\ availableDomains = 0) =>
          /\ pc = "nodomains"
          /\ attemptNumber = 0
          /\ inFlight = {}
          /\ trueCount = 0
          /\ saved = 0
          /\ eRegisterCalls = 0
          /\ noDomainsReports = 1
    /\ availableDomains > 0 => noDomainsReports = 0

C19_Witness == variant = "batch" /\ pc = "nodomains" /\ noDomainsReports = 1

\* C21: in the launch-next run, the step in which an attempt leaves the
\* in-flight set while successCount < loopCount and attemptNumber <
\* maxAttempts launches a replacement at once, whatever else is in flight;
\* so while the run is not complete inFlight is full, or the target is
\* reached, or the budget is spent.
C21_RefillOnCompletion ==
    /\ []((pc = "awaitRun" /\ ~resolved) =>
            \/ Cardinality(inFlight) = MAX_CONCURRENT_REQUESTS
            \/ successCount >= loopCount
            \/ attemptNumber >= maxAttempts)
    /\ [][(/\ inFlight \ inFlight' # {}
           /\ successCount < loopCount
           /\ attemptNumber < maxAttempts) => attemptNumber' > attemptNumber]_vars

C21_Witness ==
    /\ MAX_CONCURRENT_REQUESTS = 3
    /\ attemptNumber = 4
    /\ inFlight = {2, 3, 4}
    /\ settled = {}
    /\ successCount = 0

\* C23: the launch-next budget max(3 * loopCount, loopCount +
\* MAX_CONCURRENT_REQUESTS) is at least loopCount and at least the
\* concurrency limit plus one.
C23_BudgetFloor ==
    /\ maxAttempts >= loopCount
    /\ maxAttempts >= MAX_CONCURRENT_REQUESTS + 1
    /\ maxAttempts \in {loopCount * 3, loopCount + MAX_CONCURRENT_REQUESTS}
    /\ maxAttempts >= loopCount * 3
    /\ maxAttempts >= loopCount + MAX_CONCURRENT_REQUESTS

C23_Witness ==
    /\ loopCount + MAX_CONCURRENT_REQUESTS > loopCount * 3
    /\ attemptNumber = maxAttempts
    /\ maxAttempts = MAX_CONCURRENT_REQUESTS + 1

\* C28: in the launch-next and race-based runs successCount exceeds the
\* target by no more than the attempts in flight when it was reached:
\* successCount <= loopCount + MAX_CONCURRENT_REQUESTS - 1, and so do the
\* records appended.
C28_OvershootBound ==
    Orchestrated =>
        /\ successCount <= loopCount + MAX_CONCURRENT_REQUESTS - 1
        /\ saved <= loopCount + MAX_CONCURRENT_REQUESTS - 1

C28_Witness ==
    /\ variant = "race"
    /\ MAX_CONCURRENT_REQUESTS = 2
    /\ successCount = loopCount + 1
    /\ saved = loopCount + 1

\* C29: when the launch-next summary reports a shortfall, exactly
\* maxAttempts attempts were launched and all of them have resolved, so the
\* shortfall is loopCount minus the successful attempts of the whole run.
C29_ShortfallExact ==
    (pc = "done" /\ shortfall > 0) =>
        /\ attemptNumber = maxAttempts
        /\ inFlight = {}
        /\ shortfall = loopCount - trueCount
        /\ shownSuccess = trueCount

C29_Witness == pc = "done" /\ shortfall = 1 /\ loopCount = 2 /\ trueCount = 1

\* C30: the launch-next summary is printed once: it is reached, and from
\* then on neither the figures printed nor the attempts launched change,
\* although attempts still in flight finish and launchNext calls resolve()
\* again.
C30_SummaryOnce ==
    /\ <>(pc = "done")
    /\ [][pc = "done" =>
            /\ pc' = "done"
            /\ shownSuccess' = shownSuccess
            /\ shortfall' = shortfall
            /\ attemptNumber' = attemptNumber
            /\ resolved']_vars

C30_Witness == pc = "done" /\ inFlight = {} /\ successCount > shownSuccess

\* successes among the attempts 1 .. n of a fixed script
RECURSIVE SuccessesUpTo(_, _)
SuccessesUpTo(sc, n) ==
    IF n = 0 THEN 0
    ELSE SuccessesUpTo(sc, n - 1) + (IF FixedOutcome(sc, n) THEN 1 ELSE 0)

\* index of the k-th successful attempt among 1 .. n (0: there is none)
KthSuccess(sc, k, n) ==
    LET reached == {m \in 1 .. n : SuccessesUpTo(sc, m) >= k}
    IN IF reached = {} THEN 0 ELSE CHOOSE m \in reached : \A x \in reached : m <= x

\* C22 (as stated): with the outcome of every attempt index fixed, the
\* attempts launched and the final successCount are the same for every
\* completion order; with target 1, limit 2 and the even attempts
\* succeeding, the order in which attempt 2 returns first ends with 2
\* attempts and successCount 1, so every order would.
C22_Original ==
    (pc = "done" /\ script = "evenSucceed" /\ loopCount = 1 /\ MAX_CONCURRENT_REQUESTS = 2) =>
        (attemptNumber = 2 /\ shownSuccess = 1)

\* C22 (amended): with the outcome of every attempt index fixed, every
\* completion order ends, when the budget holds loopCount successes, with
\* successCount >= loopCount, no shortfall and a number of attempts between
\* the index of the loopCount-th successful attempt and maxAttempts;
\* otherwise with exactly maxAttempts attempts and all their successes
\* counted. With limit 1 both figures are fixed.
C22_OrderBounds ==
    pc = "done" =>
        LET n0 == KthSuccess(script, loopCount, maxAttempts) IN
        /\ IF n0 > 0
           THEN /\ shownSuccess >= loopCount
                /\ shortfall = 0
                /\ attemptNumber \in n0 .. maxAttempts
           ELSE /\ attemptNumber = maxAttempts
                /\ shownSuccess = SuccessesUpTo(script, maxAttempts)
                /\ shortfall = loopCount - shownSuccess
        /\ MAX_CONCURRENT_REQUESTS = 1 =>
              /\ attemptNumber = (IF n0 > 0 THEN n0 ELSE maxAttempts)
              /\ shownSuccess = SuccessesUpTo(script, attemptNumber)

C22_Witness ==
    /\ pc = "done"
    /\ script = "evenSucceed"
    /\ loopCount = 1
    /\ MAX_CONCURRENT_REQUESTS = 2
    /\ attemptNumber = 2
    /\ shownSuccess = 1

\* C24: no attempt changes the shared run inputs: whatever attempts run and
\* however they interleave, availableDomains, selectedProxy and password
\* keep the values they had when the run started.
C24_InputsUntouched ==
    [][/\ availableDomains' = availableDomains
       /\ selectedProxy' = selectedProxy
       /\ password' = password]_vars

C24_Witness ==
    /\ ePc = "returned"
    /\ eResult = "true"
    /\ attemptNumber >= 2
    /\ 1 \notin inFlight
    /\ availableDomains = 1

\* C25 (as stated): a user whose commissionMode is missing is a flat-rate
\* user: the rate returned is the user's profitPercent, never a bracket rate.
C25_MissingModeIsFlat ==
    (cPc = "computed" /\ cUserExists /\ cMode = "undefined"
     /\ cProfitPercent \notin {Absent, 0}) => cRate = cProfitPercent

\* C26 (as stated): for a flat-rate user the rate returned is exactly the
\* user's profitPercent, for every profit and every profitPercent in
\* 0 .. 100, 0 included.
C26_FlatRateExact ==
    (cPc = "computed" /\ cUserExists /\ cMode = "flatRate"
     /\ cProfitPercent \in 0 .. 100) => cRate = cProfitPercent

C31_BatchLaunchesAllAtOnce ==
    /\ [](variant = "batch" =>
             /\ attemptNumber = (IF pc = "start" THEN 0 ELSE loopCount)
             /\ inFlight \subseteq 1 .. loopCount
             /\ trueCount <= loopCount
             /\ trueCount <= loopCount - Cardinality(inFlight)
             /\ saved <= trueCount)
    /\ [][variant = "batch" =>
             /\ (attemptNumber' # attemptNumber =>
                    /\ pc = "start"
                    /\ trueCount = 0
                    /\ inFlight' = 1 .. loopCount
                    /\ Cardinality(inFlight') = loopCount)
             /\ (pc # "start" => inFlight' \subseteq inFlight)]_vars

\* more attempts than the concurrency limit are pending together, and later
\* the run ends with failed attempts that were not replaced
C31_Witness ==
    /\ variant = "batch"
    /\ pc = "done"
    /\ loopCount > MAX_CONCURRENT_REQUESTS
    /\ attemptNumber = loopCount
    /\ trueCount < loopCount
    /\ trueCount > 0

\* C32: after the answers are parsed, an answer to 'Max concurrent
\* attempts?' that is empty or not a positive number leaves the limit at the
\* default that prompt printed (config.maxConcurrent when positive, otherwise
\* 50), whatever was answered at 'Batch size?'.
C32_EnterKeepsShownDefault ==
    (qPc = "parsed" /\ ~ParsedPositive(concurrencyInput)) =>
        /\ shownConcurrency = PositiveOr(configMaxConcurrent, DEFAULT_CONCURRENCY)
        /\ MAX_CONCURRENT_REQUESTS = shownConcurrency

\* what the code does instead: the limit becomes the batch size in force
C32_EnterTakesBatchSize ==
    (qPc = "parsed" /\ ~ParsedPositive(concurrencyInput)) =>
        /\ shownConcurrency = PositiveOr(configMaxConcurrent, DEFAULT_CONCURRENCY)
        /\ MAX_CONCURRENT_REQUESTS = BATCH_SIZE
        /\ BATCH_SIZE = IF ParsedPositive(batchInput) THEN parseInt(batchInput).value
                         ELSE PositiveOr(configBatchSize, DEFAULT_BATCH_SIZE)

\* the colleges whose normalized name equals the normalized school name
ExactMatches ==
    {i \in 1 .. Len(collegesMap) : normalizeName(collegesMap[i]) = normalizeName(fSchool)}

\* the colleges whose normalized name contains, or is contained in, the
\* normalized school name
PartialMatches ==
    {i \in 1 .. Len(collegesMap) :
        \/ includes(normalizeName(collegesMap[i]), normalizeName(fSchool))
        \/ includes(normalizeName(fSchool), normalizeName(collegesMap[i]))}

\* C36: findCollegeByName returns null when the school name normalizes to
\* the empty string; otherwise a college whose normalized name equals the
\* normalized school name when there is one, even after earlier partial
\* matches; otherwise the first college, in iteration order, whose normalized
\* name contains or is contained in the normalized school name; otherwise null.
C36_ExactThenFirstPartial ==
    fPc = "returned" =>
        IF normalizeName(fSchool) = <<>> THEN fResult = NoCollege
        ELSE IF ExactMatches # {} THEN fResult \in ExactMatches
        ELSE IF PartialMatches # {}
             THEN fResult \in PartialMatches /\ \A i \in PartialMatches : fResult <= i
             ELSE fResult = NoCollege

\* an exact match is returned although a college that only partially
\* matches comes before it
C36_Witness ==
    /\ fPc = "returned"
    /\ fResult \in ExactMatches
    /\ \E i \in PartialMatches : i < fResult /\ i \notin ExactMatches

\* C33: processStudent returns a URL only when the step observed after the
\* submission and SSO handling is 'success' and the redirect lookup returned
\* a location, and saves a URL only when it returns it; on every other path
\* it returns null and has saved nothing; it saves at most one URL.
C33_UrlOnlyOnSuccessWithLocation ==
    /\ proc.saved <= 1
    /\ (proc.saved > 0 => proc.result = "url")
    /\ (proc.result = "url" =>
           /\ proc.currentStep = "success"
           /\ proc.location
           /\ proc.redirectCalls = 1)
    /\ (proc.pc = "returned" =>
           /\ proc.result \in {"null", "url"}
           /\ proc.result = "url" <=> (proc.currentStep = "success" /\ proc.location)
           /\ (proc.result = "null" => proc.saved = 0))
    /\ (proc.pc # "returned" => proc.result = "none" /\ proc.saved = 0)

\* a URL is saved and returned after a submission and an SSO cancel
C33_Witness ==
    /\ proc.pc = "returned"
    /\ proc.result = "url"
    /\ proc.saved = 1
    /\ proc.submitCalls = 1
    /\ proc.ssoCalls = 1

\* C34: submitPersonalInfo is called at most once per student, by the step
\* that receives the first status check and only when that check reports
\* 'collectStudentPersonalInfo'; after a failed submission the student gets
\* null and no further request; cancelSso is called at most once, only when
\* the step is 'sso', and its failure ends the student with null;
\* uploadDocument is never called.
C34_SubmitAndCancelOnce ==
    /\ [](/\ proc.submitCalls <= 1
          /\ proc.ssoCalls <= 1
          /\ proc.uploadCalls = 0
          /\ (proc.submitCalls = 1 => proc.firstStep = "collectStudentPersonalInfo")
          /\ (proc.submitFailed => proc.pc = "returned" /\ proc.result = "null")
          /\ (proc.ssoFailed => proc.pc = "returned" /\ proc.result = "null"))
    /\ [][/\ (proc'.submitCalls > proc.submitCalls =>
                 /\ proc.pc = "check1"
                 /\ proc.statusChecks = 1
                 /\ proc'.firstStep = "collectStudentPersonalInfo")
           /\ (proc'.ssoCalls > proc.ssoCalls => proc'.currentStep = "sso")
           /\ ((proc.submitFailed /\ mIndex' = mIndex) =>
                 /\ proc'.requests = proc.requests
                 /\ proc'.statusChecks = proc.statusChecks
                 /\ proc'.ssoCalls = proc.ssoCalls
                 /\ proc'.redirectCalls = proc.redirectCalls)]_vars

\* the submission succeeded, the step was then 'sso' and the cancel failed
C34_Witness ==
    /\ proc.pc = "returned"
    /\ proc.submitCalls = 1
    /\ ~proc.submitFailed
    /\ proc.ssoCalls = 1
    /\ proc.ssoFailed
    /\ proc.result = "null"

\* C35: main processes the students one at a time in file order: a request
\* is issued only for the student whose predecessors have all returned, and
\* the next student starts only after the current one returned; a null
\* result does not stop the loop; with an empty verification ID, no college
\* or no student, no student is processed; rl.close() is called on each of
\* these exits and at the end of the loop.
C35_OneAtATimeInOrder ==
    /\ [](/\ mIndex <= Len(students)
          /\ (proc.requests > 0 => mIndex >= 1)
          /\ (mPc = "student" => Len(mResults) = mIndex - 1)
          /\ (mPc \in {"between", "done"} => Len(mResults) = mIndex)
          /\ (rlClosed <=> mPc = "done")
          /\ ((mPc = "done" /\ NoInput(verificationId, collegesMap, students)) =>
                 /\ mIndex = 0
                 /\ mResults = <<>>
                 /\ proc = IdleProc)
          /\ ((mPc = "done" /\ ~NoInput(verificationId, collegesMap, students)) =>
                 Len(mResults) = Len(students)))
    /\ [][/\ (mIndex' # mIndex =>
                 /\ mIndex' = mIndex + 1
                 /\ Len(mResults) = mIndex
                 /\ (mIndex > 0 => proc.pc = "returned")
                 /\ proc'.requests = 1)
           /\ (proc'.requests # proc.requests =>
                 /\ mPc' = "student"
                 /\ Len(mResults') = mIndex' - 1)
           /\ (Len(mResults') # Len(mResults) =>
                 /\ mResults' = Append(mResults, proc.result)
                 /\ proc.pc = "returned")]_vars

\* the first student ended with null and the second was processed to a URL
C35_Witness ==
    /\ mPc = "done"
    /\ rlClosed
    /\ Len(students) = 2
    /\ mResults = <<"null", "url">>

====
